---------------------------- MODULE Spec2Model ----------------------------
(***************************************************************************)
(* Model of config-example.py: the module-level initialization that        *)
(* derives the path set from the subreddit name, creates the four          *)
(* directories with os.makedirs(_dir, exist_ok=True) and then defines the  *)
(* shared values skip_hash, n_dimensions and cols_conv_feats.              *)
(*                                                                         *)
(* Paths are strings, as in the program.  The filesystem is a tree of      *)
(* nodes; a node is the sequence of names leading to it from the root.     *)
(* Every system call (stat, mkdir) is one atomic step, so that several     *)
(* runs of the module interleave at system-call granularity.               *)
(***************************************************************************)
EXTENDS Integers, Sequences, FiniteSets, TLC

VARIABLES
    subreddit,   \* line 4: the identifier the operator sets
    dimensions,  \* line 21: the feature width the operator sets
    dirs,        \* filesystem: the nodes that are directories
    files,       \* filesystem: the nodes that are not directories
    denied,      \* filesystem: directories in which creating an entry is refused
    pc,          \* per run: "start", "makedirs", "done" or "error"
    env,         \* per run: the module's global names defined so far
    idx,         \* per run: position of the for loop in its list (1..4)
    stack,       \* per run: the frames of the os.makedirs calls in progress
    exc,         \* per run: the exception that ended the run, or "none"
    dirs0,       \* the directories found before the first run (never changes)
    files0       \* the other entries found before the first run (never changes)

vars == <<subreddit, dimensions, dirs, files, denied, pc, env, idx, stack, exc, dirs0, files0>>

(***************************************************************************)
(* Bounds of the model.                                                    *)
(***************************************************************************)
NumRuns == 2
MaxObstacles == 1
MaxDim == 3

Runs == 1..NumRuns

(***************************************************************************)
(* Strings.                                                                *)
(***************************************************************************)
sep == "/"
curdir == "."
pardir == ".."

CharAt(s, i) == SubSeq(s, i, i)

StartsWith(s, t) == Len(s) >= Len(t) /\ SubSeq(s, 1, Len(t)) = t

EndsWith(s, t) == Len(s) >= Len(t) /\ SubSeq(s, Len(s) - Len(t) + 1, Len(s)) = t

\* str.rfind(sep): the last index (1-based here) holding sep, 0 when there is none
RECURSIVE RFindFrom(_, _)
RFindFrom(s, i) ==
    IF i = 0 THEN 0
    ELSE IF CharAt(s, i) = sep THEN i
    ELSE RFindFrom(s, i - 1)

RFind(s) == RFindFrom(s, Len(s))

\* str.rstrip(sep)
RECURSIVE RStrip(_)
RStrip(s) ==
    IF Len(s) > 0 /\ CharAt(s, Len(s)) = sep
    THEN RStrip(SubSeq(s, 1, Len(s) - 1))
    ELSE s

\* s consists of separators only (head == sep*len(head))
RECURSIVE AllSep(_)
AllSep(s) ==
    IF Len(s) = 0 THEN TRUE
    ELSE CharAt(s, 1) = sep /\ AllSep(SubSeq(s, 2, Len(s)))

\* os.path.join with the separator added even after a trailing separator
PathJoinAlwaysSep(a, b) ==
    IF StartsWith(b, sep) THEN b
    ELSE a \o sep \o b

\* os.path.join that does not restart at an absolute component
PathJoinKeepsFirst(a, b) ==
    IF a = "" \/ EndsWith(a, sep) THEN a \o b
    ELSE a \o sep \o b

\* os.path.join(a, b)
PathJoin(a, b) ==
    IF StartsWith(b, sep) THEN b
    ELSE IF a = "" \/ EndsWith(a, sep) THEN a \o b
    ELSE a \o sep \o b

\* os.path.split(p): <<head, tail>>
PathSplit(p) ==
    LET i    == RFind(p)
        head == SubSeq(p, 1, i)
        tail == SubSeq(p, i + 1, Len(p))
    IN  <<IF head # "" /\ ~AllSep(head) THEN RStrip(head) ELSE head, tail>>

\* os.path.dirname(p)
PathDirname(p) == PathSplit(p)[1]

\* the decimal digits of a natural number, as str(n) writes them
Digits == "0123456789"

RECURSIVE Decimal(_)
Decimal(n) ==
    IF n < 10 THEN CharAt(Digits, n + 1)
    ELSE Decimal(n \div 10) \o CharAt(Digits, (n % 10) + 1)

(***************************************************************************)
(* Lines 4-14: the path set, computed from the subreddit name.             *)
(***************************************************************************)
working_dir(s) == "reddit_data/" \o s \o "/"

output_dir == "ouput/"

PathSet(s) ==
    [ subreddit         |-> s,
      working_dir       |-> working_dir(s),
      media_dir         |-> PathJoin(working_dir(s), "media"),
      mosaic_dir        |-> PathJoin(working_dir(s), "mosaics"),
      output_dir        |-> output_dir,
      image_lookup_file |-> PathJoin(working_dir(s), "media.json.gz"),
      logits_file       |-> PathJoin(working_dir(s), "image_features.csv.gz"),
      knn_file          |-> PathJoin(working_dir(s), "knn.pkl"),
      file_animation    |-> PathJoin(output_dir, "/doppler_mosaic.mp4") ]

\* the list with a file entry among the directories
DirListWithFile(e) ==
    <<e.working_dir, e.media_dir, e.output_dir, e.mosaic_dir, e.image_lookup_file>>

\* line 16: the list the for loop iterates over
DirList(e) == <<e.working_dir, e.media_dir, e.output_dir, e.mosaic_dir>>

\* the four directory entries of the path set
FourDirs(e) == {e.working_dir, e.media_dir, e.output_dir, e.mosaic_dir}

\* the path-set entries that name files
FileList(e) == <<e.image_lookup_file, e.logits_file, e.knn_file, e.file_animation>>

(***************************************************************************)
(* Lines 20-22: the shared values, defined after the loop.                 *)
(***************************************************************************)
skip_hash == <<"NOHASH", "0000000000000000", "nan">>

n_dimensions == 2048

\* the list numbered from 1: range(1, d + 1)
cols_conv_feats_from_one(d) == [k \in 1..d |-> "conv_" \o Decimal(k)]

\* [f'conv_{n}' for n in range(d)]
cols_conv_feats(d) == [k \in 1..d |-> "conv_" \o Decimal(k - 1)]

SharedValues(d) ==
    [ skip_hash       |-> skip_hash,
      n_dimensions    |-> d,
      cols_conv_feats |-> cols_conv_feats(d) ]

(***************************************************************************)
(* The filesystem: path resolution, stat and mkdir as the kernel does      *)
(* them.  The process runs in the directory Cwd, a child of the root.      *)
(***************************************************************************)
Root == << >>

Cwd == <<"cwd">>

Parent(n) == IF n = Root THEN Root ELSE SubSeq(n, 1, Len(n) - 1)

\* the components of a path: the non-empty pieces between separators
RECURSIVE SegmentsFrom(_, _, _, _)
SegmentsFrom(s, i, cur, acc) ==
    IF i > Len(s) THEN (IF cur = "" THEN acc ELSE Append(acc, cur))
    ELSE IF CharAt(s, i) = sep
         THEN SegmentsFrom(s, i + 1, "", IF cur = "" THEN acc ELSE Append(acc, cur))
         ELSE SegmentsFrom(s, i + 1, cur \o CharAt(s, i), acc)

Segments(s) == SegmentsFrom(s, 1, "", << >>)

StartNode(path) == IF StartsWith(path, sep) THEN Root ELSE Cwd

\* Walk the components segs from node n.  Each component is looked up in n,
\* which must be a directory: ENOTDIR when it is a file, ENOENT when absent.
RECURSIVE Walk(_, _, _, _)
Walk(n, segs, D, F) ==
    IF segs = << >> THEN [err |-> "", node |-> n]
    ELSE IF n \in F THEN [err |-> "ENOTDIR", node |-> n]
    ELSE IF n \notin D THEN [err |-> "ENOENT", node |-> n]
    ELSE LET c == Head(segs)
             m == IF c = curdir THEN n
                  ELSE IF c = pardir THEN Parent(n)
                  ELSE Append(n, c)
         IN  Walk(m, Tail(segs), D, F)

\* stat(path), the components of path being segs: "dir", "file", or the errno
StatSegments(path, segs, D, F) ==
    IF path = "" THEN "ENOENT"
    ELSE LET r == Walk(StartNode(path), segs, D, F)
         IN  IF r.err # "" THEN r.err
             ELSE IF r.node \in D THEN "dir"
             ELSE IF r.node \in F THEN (IF EndsWith(path, sep) THEN "ENOTDIR" ELSE "file")
             ELSE "ENOENT"

Stat(path, D, F) == StatSegments(path, Segments(path), D, F)

\* os.path.exists(path), os.path.isdir(path)
PathExists(path, D, F) == Stat(path, D, F) \in {"dir", "file"}

PathIsDir(path, D, F) == Stat(path, D, F) = "dir"

\* mkdir(path): [err, node]; err = "" when the directory node was created.
\* An existing entry is reported (EEXIST) before the permission is checked.
Mkdir(path, D, F, X) ==
    LET segs == Segments(path)
    IN  IF path = "" THEN [err |-> "ENOENT", node |-> Root]
        ELSE IF segs = << >> THEN [err |-> "EEXIST", node |-> Root]
        ELSE LET r    == Walk(StartNode(path), SubSeq(segs, 1, Len(segs) - 1), D, F)
                 last == segs[Len(segs)]
                 n    == Append(r.node, last)
             IN  IF r.err # "" THEN r
                 ELSE IF r.node \in F THEN [err |-> "ENOTDIR", node |-> r.node]
                 ELSE IF r.node \notin D THEN [err |-> "ENOENT", node |-> r.node]
                 ELSE IF last \in {curdir, pardir} THEN [err |-> "EEXIST", node |-> r.node]
                 ELSE IF n \in D \cup F THEN [err |-> "EEXIST", node |-> n]
                 ELSE IF r.node \in X THEN [err |-> "EACCES", node |-> n]
                 ELSE [err |-> "", node |-> n]

\* the exception class Python raises for an errno
ErrorClass(errno) ==
    CASE errno = "EEXIST"  -> "FileExistsError"
      [] errno = "ENOENT"  -> "FileNotFoundError"
      [] errno = "ENOTDIR" -> "NotADirectoryError"
      [] errno = "EACCES"  -> "PermissionError"

(***************************************************************************)
(* os.makedirs(name, exist_ok=True), line 17.  A frame is one call in      *)
(* progress: "exists" before the test path.exists(head), "mkdir" before    *)
(* mkdir(name), "isdir" after a failed mkdir, before path.isdir(name).     *)
(***************************************************************************)
\* the call without its keyword argument: os.makedirs(_dir)
exist_ok_default == FALSE

\* the keyword argument of the call on line 17
exist_ok == TRUE

\* os.mkdir in place of os.makedirs: no parent is looked for or made
EnterNoParents(name) ==
    [name |-> name, head |-> "", tail |-> name, at |-> "mkdir", errno |-> ""]

Enter(name) ==
    LET s1 == PathSplit(name)
        s2 == IF s1[2] = "" THEN PathSplit(s1[1]) ELSE s1
    IN  [ name  |-> name,
          head  |-> s2[1],
          tail  |-> s2[2],
          at    |-> IF s2[1] # "" /\ s2[2] # "" THEN "exists" ELSE "mkdir",
          errno |-> "" ]

Top(L) == Head(L.stack)

SetTop(L, f) == [L EXCEPT !.stack = <<f>> \o Tail(L.stack)]

\* the loop stopping one element early
AfterCallSkipsLast(L, d) ==
    IF L.idx < Len(DirList(L.env)) - 1
    THEN [L EXCEPT !.idx = L.idx + 1,
                   !.stack = <<Enter(DirList(L.env)[L.idx + 1])>>]
    ELSE [L EXCEPT !.pc = "done", !.stack = << >>,
                   !.env = L.env @@ SharedValues(d)]

\* the call for the current list element returned: next element, or the
\* loop is over and lines 20-22 define the shared values
AfterCall(L, d) ==
    IF L.idx < Len(DirList(L.env))
    THEN [L EXCEPT !.idx = L.idx + 1,
                   !.stack = <<Enter(DirList(L.env)[L.idx + 1])>>]
    ELSE [L EXCEPT !.pc = "done", !.stack = << >>,
                   !.env = L.env @@ SharedValues(d)]

RECURSIVE Return(_, _)
RECURSIVE Resume(_, _)

\* the top frame returns normally
Return(L, d) ==
    LET rest == Tail(L.stack)
    IN  IF rest = << >> THEN AfterCall([L EXCEPT !.stack = rest], d)
        ELSE Resume([L EXCEPT !.stack = rest], d)

\* the top frame is back from its recursive call makedirs(head):
\* "if tail == cdir: return", else on to mkdir(name)
Resume(L, d) ==
    IF Top(L).tail = curdir THEN Return(L, d)
    ELSE SetTop(L, [Top(L) EXCEPT !.at = "mkdir"])

\* a caller that passes over every error of its recursive call
RaisePassesAll(L, e, d) ==
    LET rest == Tail(L.stack)
    IN  IF rest = << >> THEN [L EXCEPT !.pc = "error", !.exc = e, !.stack = rest]
        ELSE Resume([L EXCEPT !.stack = rest], d)

\* a loop that catches the exception and goes on with the next directory
RECURSIVE RaiseLoopGoesOn(_, _, _)
RaiseLoopGoesOn(L, e, d) ==
    LET rest == Tail(L.stack)
    IN  IF rest = << >> THEN AfterCall([L EXCEPT !.stack = rest], d)
        ELSE IF e = "FileExistsError" THEN Resume([L EXCEPT !.stack = rest], d)
        ELSE RaiseLoopGoesOn([L EXCEPT !.stack = rest], e, d)

\* the top frame raises e: the caller passes over a FileExistsError of its
\* recursive call and lets anything else through; the module stops at the
\* first exception that reaches it
RECURSIVE Raise(_, _, _)
Raise(L, e, d) ==
    LET rest == Tail(L.stack)
    IN  IF rest = << >> THEN [L EXCEPT !.pc = "error", !.exc = e, !.stack = rest]
        ELSE IF e = "FileExistsError" THEN Resume([L EXCEPT !.stack = rest], d)
        ELSE Raise([L EXCEPT !.stack = rest], e, d)

(***************************************************************************)
(* The runs of the module.                                                 *)
(***************************************************************************)
Local(p) == [pc |-> pc[p], env |-> env[p], idx |-> idx[p], stack |-> stack[p], exc |-> exc[p]]

SetLocal(p, L) ==
    /\ pc' = [pc EXCEPT ![p] = L.pc]
    /\ env' = [env EXCEPT ![p] = L.env]
    /\ idx' = [idx EXCEPT ![p] = L.idx]
    /\ stack' = [stack EXCEPT ![p] = L.stack]
    /\ exc' = [exc EXCEPT ![p] = L.exc]

\* lines 1-16: the path variables are set and the loop calls makedirs on
\* the first directory
Start(p) ==
    /\ pc[p] = "start"
    /\ LET e == PathSet(subreddit)
       IN  SetLocal(p, [pc |-> "makedirs", env |-> e, idx |-> 1,
                        stack |-> <<Enter(DirList(e)[1])>>, exc |-> "none"])
    /\ UNCHANGED <<subreddit, dimensions, dirs, files, denied, dirs0, files0>>

\* "if head and tail and not path.exists(head)": recurse on head when absent
CheckExists(p) ==
    /\ pc[p] = "makedirs"
    /\ Top(Local(p)).at = "exists"
    /\ LET L == Local(p)
           f == Top(L)
       IN  IF PathExists(f.head, dirs, files)
           THEN SetLocal(p, SetTop(L, [f EXCEPT !.at = "mkdir"]))
           ELSE SetLocal(p, [L EXCEPT !.stack = <<Enter(f.head)>> \o L.stack])
    /\ UNCHANGED <<subreddit, dimensions, dirs, files, denied, dirs0, files0>>

\* "mkdir(name, mode)"
CallMkdir(p) ==
    /\ pc[p] = "makedirs"
    /\ Top(Local(p)).at = "mkdir"
    /\ LET L == Local(p)
           f == Top(L)
           r == Mkdir(f.name, dirs, files, denied)
       IN  IF r.err = ""
           THEN /\ dirs' = dirs \cup {r.node}
                /\ SetLocal(p, Return(L, dimensions))
           ELSE /\ SetLocal(p, SetTop(L, [f EXCEPT !.at = "isdir", !.errno = r.err]))
                /\ UNCHANGED dirs
    /\ UNCHANGED <<subreddit, dimensions, files, denied, dirs0, files0>>

\* "except OSError: if not exist_ok or not path.isdir(name): raise"
CheckIsDir(p) ==
    /\ pc[p] = "makedirs"
    /\ Top(Local(p)).at = "isdir"
    /\ LET L == Local(p)
           f == Top(L)
       IN  IF exist_ok /\ PathIsDir(f.name, dirs, files)
           THEN SetLocal(p, Return(L, dimensions))
           ELSE SetLocal(p, Raise(L, ErrorClass(f.errno), dimensions))
    /\ UNCHANGED <<subreddit, dimensions, dirs, files, denied, dirs0, files0>>

(***************************************************************************)
(* Initial states: the operator's inputs and the filesystem found.         *)
(***************************************************************************)
Identifiers == {"dankmemes", "a/b", ".", "../../doppler_mosaic.mp4"}

\* the paths os.makedirs(name) may pass to mkdir: name, its head, ...
RECURSIVE Chain(_)
Chain(name) ==
    LET f == Enter(name)
    IN  IF f.at = "exists" THEN {name} \cup Chain(f.head) ELSE {name}

\* the node a path names when every directory on the way exists
RECURSIVE LexWalk(_, _)
LexWalk(n, segs) ==
    IF segs = << >> THEN n
    ELSE LET c == Head(segs)
         IN  LexWalk(IF c = curdir THEN n
                     ELSE IF c = pardir THEN Parent(n)
                     ELSE Append(n, c), Tail(segs))

LexNode(path) == LexWalk(StartNode(path), Segments(path))

Range(q) == {q[k] : k \in DOMAIN q}

\* the nodes of the four directories and of their parent segments
DirNodesOf ==
    [s \in Identifiers |->
        {LexNode(q) : q \in UNION {Chain(d) : d \in FourDirs(PathSet(s))}}]

DirNodes(s) == DirNodesOf[s]

\* the nodes of the file entries of the path set
FileNodesOf ==
    [s \in Identifiers |-> {LexNode(q) : q \in Range(FileList(PathSet(s)))}]

FileNodes(s) == FileNodesOf[s]

Universe(s) == DirNodes(s) \cup FileNodes(s) \cup {Root, Cwd}

\* the filesystems the module may find for identifier s: some of the
\* directories already there, and at most maxObstacles obstacles: entries
\* that are not directories, in the way or at a file entry, and directories
\* refusing creation
InitFilesystem(s, maxObstacles) ==
    /\ dirs \in {D \in SUBSET (DirNodes(s) \cup {Root, Cwd}) :
                    /\ {Root, Cwd} \subseteq D
                    /\ \A n \in D : Parent(n) \in D}
    /\ files \in {F \in SUBSET (Universe(s) \ dirs) :
                    /\ Cardinality(F) <= maxObstacles
                    /\ \A n \in F : Parent(n) \in dirs}
    /\ denied \in {X \in SUBSET dirs :
                    Cardinality(X) + Cardinality(files) <= maxObstacles}
    /\ dirs0 = dirs
    /\ files0 = files

InitRuns ==
    /\ pc = [p \in Runs |-> "start"]
    /\ env = [p \in Runs |-> << >>]
    /\ idx = [p \in Runs |-> 0]
    /\ stack = [p \in Runs |-> << >>]
    /\ exc = [p \in Runs |-> "none"]

\* The feature width has no part in the filesystem steps: every identifier
\* and filesystem is explored with the smallest width, and the other widths,
\* with the 2048 of line 21, for the identifier of line 4.
Init ==
    /\ \/ /\ subreddit \in Identifiers
          /\ dimensions = 1
          /\ InitFilesystem(subreddit, MaxObstacles)
       \/ /\ subreddit = "dankmemes"
          /\ dimensions \in (2..MaxDim) \cup {n_dimensions}
          /\ InitFilesystem(subreddit, 0)
    /\ InitRuns

Finished(p) == pc[p] \in {"done", "error"}

\* a run starts when the runs before it are over
StartInTurn(p) == (\A q \in 1..(p - 1) : Finished(q)) /\ Start(p)

\* the module is run NumRuns times in succession
Next ==
    \E p \in Runs :
        \/ StartInTurn(p)
        \/ CheckExists(p)
        \/ CallMkdir(p)
        \/ CheckIsDir(p)

Spec == Init /\ [][Next]_vars

\* NumRuns processes run the module concurrently, where nothing refuses a
\* creation and nothing is in the way
InitConc ==
    /\ subreddit \in Identifiers
    /\ dimensions = 1
    /\ InitFilesystem(subreddit, 0)
    /\ InitRuns

NextConc ==
    \E p \in Runs :
        \/ Start(p)
        \/ CheckExists(p)
        \/ CallMkdir(p)
        \/ CheckIsDir(p)

SpecConc == InitConc /\ [][NextConc]_vars

(***************************************************************************)
(* Vocabulary of the properties.                                           *)
(***************************************************************************)
PathNames ==
    {"subreddit", "working_dir", "media_dir", "mosaic_dir", "output_dir",
     "image_lookup_file", "logits_file", "knn_file", "file_animation"}

SharedNames == {"skip_hash", "n_dimensions", "cols_conv_feats"}

Begun(p) == pc[p] # "start"

\* Chain and Segments, tabulated for the directory paths of the identifiers
ChainOf ==
    [d \in UNION {FourDirs(PathSet(s)) : s \in Identifiers} |-> Chain(d)]

SegmentsOf == [q \in UNION {ChainOf[d] : d \in DOMAIN ChainOf} |-> Segments(q)]

\* path names a directory in the filesystem as it is now
IsDirNow(path) ==
    StatSegments(path,
                 IF path \in DOMAIN SegmentsOf THEN SegmentsOf[path] ELSE Segments(path),
                 dirs, files) = "dir"

\* the directory named by path exists, with each of its parent segments
PresentWithParents(path) ==
    \A q \in (IF path \in DOMAIN ChainOf THEN ChainOf[path] ELSE Chain(path)) :
        IsDirNow(q)

\* nothing refuses a creation and nothing but directories is on the way
CreationPermitted == denied = {}

NothingInTheWay == files \cap DirNodes(subreddit) = {}

\* the identifier is one legal path segment
LegalSegment(s) ==
    /\ s # ""
    /\ s \notin {curdir, pardir}
    /\ \A k \in 1..Len(s) : CharAt(s, k) # sep

\* C1: when a run returns normally the four directories exist with every
\* parent segment, absent or present beforehand; and where creation is
\* permitted and nothing is in the way every run that ends returns normally.
C1_DirectoriesExist ==
    \A p \in Runs :
        /\ pc[p] = "done" =>
              \A d \in FourDirs(env[p]) : PresentWithParents(d)
        /\ (Finished(p) /\ CreationPermitted /\ NothingInTheWay) => pc[p] = "done"

\* a run ended normally that found nothing of reddit_data and an output
\* directory already present
C1_Witness ==
    /\ pc[1] = "done"
    /\ subreddit = "dankmemes"
    /\ dirs0 = {Root, Cwd, <<"cwd", "ouput">>}
    /\ <<"cwd", "reddit_data", "dankmemes", "mosaics">> \in dirs

\* C2: once a run has ended normally, a run after it does not fail, holds
\* the same path set, and leaves the filesystem as it is.
C2_Idempotent ==
    [][\A p \in Runs : \A q \in Runs :
          (pc[p] = "done" /\ q # p) =>
              /\ dirs' = dirs
              /\ files' = files
              /\ pc'[q] # "error"
              /\ pc'[q] # "start" =>
                    \A n \in PathNames : env'[q][n] = env[p][n]]_vars

\* both runs ended normally, the first having created directories
C2_Witness ==
    /\ pc[1] = "done"
    /\ pc[2] = "done"
    /\ dirs # dirs0

\* C3: runs racing each other never fail, and when all are over the four
\* directories exist.
C3_RaceSafe ==
    /\ \A p \in Runs : pc[p] # "error"
    /\ (\A p \in Runs : pc[p] = "done") =>
          \A d \in FourDirs(env[1]) : PresentWithParents(d)

\* a run lost a race: its mkdir found a directory (EEXIST) that was not
\* there when the runs began and that it had looked for and not found
C3_Witness ==
    \E p \in Runs :
        /\ pc[p] = "makedirs"
        /\ Top(Local(p)).at = "isdir"
        /\ Top(Local(p)).errno = "EEXIST"
        /\ LexNode(Top(Local(p)).name) \notin dirs0
        /\ Len(stack[p]) > 1

\* the directories created since the first run began
Created == dirs \ dirs0

Refused(p) ==
    /\ pc[p] = "makedirs"
    /\ Top(Local(p)).at = "isdir"
    /\ Top(Local(p)).errno = "EACCES"

\* C5: the step after a refused creation ends the run with PermissionError,
\* creating nothing; a run that ended in error takes no further step and
\* never has the shared values.
C5_FailureSurfaced ==
    [][\A p \in Runs :
          /\ (Refused(p) /\ stack'[p] # stack[p]) =>
                /\ pc'[p] = "error"
                /\ exc'[p] = "PermissionError"
                /\ dirs' = dirs
          /\ pc[p] = "error" =>
                /\ pc'[p] = "error"
                /\ exc'[p] = exc[p]
                /\ env'[p] = env[p]
                /\ DOMAIN env[p] \cap SharedNames = {}]_vars

\* a run ended with PermissionError after creating its working directory
C5_Witness ==
    /\ pc[1] = "error"
    /\ exc[1] = "PermissionError"
    /\ idx[1] = 3
    /\ Created # {}

C7_FeatureColumns ==
    \A p \in Runs :
        pc[p] = "done" =>
            LET c == env[p].cols_conv_feats
            IN  /\ env[p].n_dimensions = dimensions
                /\ Len(c) = dimensions
                /\ \A i \in 0..(dimensions - 1) : c[i + 1] = "conv_" \o ToString(i)
                /\ Cardinality(Range(c)) = Len(c)

\* the list as written: 2048 names, the last conv_2047
C7_Witness ==
    /\ pc[1] = "done"
    /\ dimensions = 2048
    /\ env[1].cols_conv_feats[1] = "conv_0"
    /\ env[1].cols_conv_feats[2048] = "conv_2047"

\* C8: the path set is the reference function of the identifier, whatever
\* the filesystem holds; media_dir and mosaic_dir lie under working_dir and
\* output_dir is the constant "ouput/".
C8_PathSet ==
    \A p \in Runs :
        Begun(p) =>
            LET e == env[p]
                w == "reddit_data/" \o subreddit \o "/"
            IN  /\ e.working_dir = w
                /\ e.media_dir = w \o "media"
                /\ e.mosaic_dir = w \o "mosaics"
                /\ e.image_lookup_file = w \o "media.json.gz"
                /\ e.logits_file = w \o "image_features.csv.gz"
                /\ e.knn_file = w \o "knn.pkl"
                /\ e.output_dir = "ouput/"
                /\ StartsWith(e.media_dir, e.working_dir)
                /\ StartsWith(e.mosaic_dir, e.working_dir)

\* the path set of a nested identifier, held by a run that failed
C8_Witness ==
    /\ subreddit = "a/b"
    /\ pc[1] = "error"
    /\ env[1].media_dir = "reddit_data/a/b/media"
    /\ files # {}

\* C9: file_animation is the absolute path "/doppler_mosaic.mp4": it does
\* not lie in output_dir, and the directory holding it (the root) is none
\* of the four directory paths and is never created by a run.
C9_FileAnimation ==
    \A p \in Runs :
        Begun(p) =>
            LET e == env[p]
            IN  /\ e.file_animation = "/doppler_mosaic.mp4"
                /\ ~StartsWith(e.file_animation, e.output_dir)
                /\ PathDirname(e.file_animation) = sep
                /\ PathDirname(e.file_animation) \notin FourDirs(e)
                /\ LexNode(PathDirname(e.file_animation)) \notin Created

\* a run ended normally: output_dir exists and holds no file_animation
C9_Witness ==
    /\ pc[1] = "done"
    /\ subreddit = "dankmemes"
    /\ IsDirNow("ouput/")
    /\ LexNode(env[1].file_animation) = <<"doppler_mosaic.mp4">>
    /\ LexNode(env[1].file_animation) \notin dirs \cup files

\* the nodes of the first k directories of the list and their parent segments
NodesUpTo(e, k) ==
    {LexNode(q) : q \in UNION {Chain(DirList(e)[j]) : j \in 1..k}}

\* C10: a run at the k-th directory of the order working_dir, media_dir,
\* output_dir, mosaic_dir has the directories before the k-th in place and
\* no shared value; when it fails there, it stops with its path variables
\* set, and no directory after the k-th has been created.
C10_OrderNoRollback ==
    \A p \in Runs :
        (Begun(p) /\ pc[p] # "done") =>
            LET e == env[p]
                k == idx[p]
            IN  /\ DirList(e) = <<e.working_dir, e.media_dir, e.output_dir, e.mosaic_dir>>
                /\ \A j \in 1..(k - 1) : PresentWithParents(DirList(e)[j])
                /\ DOMAIN e = PathNames
                /\ pc[p] = "error" =>
                      /\ stack[p] = << >>
                      /\ ~IsDirNow(DirList(e)[k])
                      /\ Created \subseteq NodesUpTo(e, k)
                      /\ ~ENABLED (CheckExists(p) \/ CallMkdir(p) \/ CheckIsDir(p))

\* a run failed at the third directory: the first two stay, the fourth is
\* not made
C10_Witness ==
    /\ pc[1] = "error"
    /\ idx[1] = 3
    /\ subreddit = "dankmemes"
    /\ <<"cwd", "reddit_data", "dankmemes", "media">> \in Created
    /\ <<"cwd", "reddit_data", "dankmemes", "mosaics">> \notin dirs

=============================================================================
